---------------------------- MODULE Spec2Model ----------------------------
(***************************************************************************)
(* A model of the EV energy calculator (src/src/ev_calculator.py).         *)
(*                                                                         *)
(* The program computes with floats; the model computes with integers in   *)
(* fixed units, and a float quotient becomes an integer quotient rounded   *)
(* toward zero (MulDiv):                                                   *)
(*   time                s            velocity         cm/s                *)
(*   acceleration        mm/s^2       force            mN                  *)
(*   power               W            energy (joules)  J                   *)
(*   current             mA           capacity         mAh                 *)
(*   SOC                 1e-6         energy (kWh)     1e-6 kWh            *)
(*   distance (km)       1e-6 km      energy per km    1e-6 kWh/km         *)
(*   range (km)          1e-3 km      speed (km/h)     0.01 km/h           *)
(* Parameter records hold scaled integers: percentages for efficiencies,   *)
(* 0.01 m^2, 0.01 (Cd), 0.1 kg/m^3, 0.001 (Cr), 0.01 m/s^2 (g), 0.1 kW     *)
(* (auxiliary loads), kWh, V, kW.                                          *)
(***************************************************************************)
EXTENDS Integers, Sequences, FiniteSets, TLC

\* ------------------------------------------------------------------------
\* Fixed-point arithmetic
\* ------------------------------------------------------------------------

Abs(x) == IF x < 0 THEN -x ELSE x

Min(a, b) == IF b < a THEN b ELSE a

Max(a, b) == IF b > a THEN b ELSE a

\* <<q, r>> with a*b = q*c + r and 0 <= r < c, for a, b >= 0 and c > 0,
\* computed by doubling so that no intermediate leaves 32 bits.
RECURSIVE MulDivMod(_, _, _)
MulDivMod(a, b, c) ==
    IF b = 0 THEN <<0, 0>>
    ELSE LET h  == MulDivMod(a, b \div 2, c)
             q2 == (2 * h[1]) + ((2 * h[2]) \div c)
             r2 == (2 * h[2]) % c
         IN IF b % 2 = 0 THEN <<q2, r2>>
            ELSE <<q2 + (a \div c) + ((r2 + (a % c)) \div c), (r2 + (a % c)) % c>>

\* The float quotient (a*b)/c in fixed point: rounded toward zero, and
\* symmetric in sign as float division is.
MulDiv(a, b, c) ==
    LET neg == ((a < 0) # (b < 0)) # (c < 0)
        q   == MulDivMod(Abs(a), Abs(b), Abs(c))[1]
    IN IF neg THEN -q ELSE q

\* The value of a singleton set. Only({e(x) : x \in {d}}) evaluates d once
\* and names its value x in e, as an assignment x = d does in the program.
Only(S) == CHOOSE r \in S : TRUE

\* An array with its elements computed (a sequence given by a rule
\* [i \in 1..n |-> e] computes e again at every use).
array(f) == SubSeq(f, 1, Len(f))

\* Scales of the fixed-point results.
SocScale == 1000000
KWhScale == 1000000
KmScale == 1000000
RangeScale == 1000
VelScale == 100
AccScale == 1000
ForceScale == 1000
CurrentScale == 1000

\* ------------------------------------------------------------------------
\* PART 1: parameter records
\* ------------------------------------------------------------------------

\* The dataclass defaults of VehicleParameters.
VehicleDefaults ==
    [mass |-> 1800, frontal_area |-> 230, drag_coefficient |-> 28,
     air_density |-> 12, rolling_coeff |-> 10, wheel_radius |-> 34,
     gravity |-> 981]

\* VehicleParameters.__post_init__: the three asserts, in order.
VehicleInRange(v) ==
    /\ 1000 <= v.mass /\ v.mass <= 3000
    /\ 150 <= v.frontal_area /\ v.frontal_area <= 350
    /\ 20 <= v.drag_coefficient /\ v.drag_coefficient <= 50

\* Constructing a VehicleParameters. `optimize` is the interpreter's -O flag:
\* an assert statement raises AssertionError when it fails, and is compiled
\* away under -O.
VehicleParameters(fields, optimize) ==
    IF optimize \/ VehicleInRange(fields)
    THEN [status |-> "ok", exc |-> "none", obj |-> fields]
    ELSE [status |-> "raised", exc |-> "AssertionError", obj |-> fields]

BatteryDefaults ==
    [nominal_capacity |-> 75, nominal_voltage |-> 400, usable_capacity |-> 70,
     soc_min |-> 100000, soc_max |-> 950000, soc_initial |-> 1000000,
     resistance_internal |-> 50, resistance_alpha |-> 10, temp_reference |-> 25,
     coulombic_efficiency |-> 99, ocv_full |-> 420, ocv_empty |-> 320]

\* BatteryParameters.get_capacity_ah, in mAh.
get_capacity_ah(b) == MulDiv(b.nominal_capacity * 1000, CurrentScale, b.nominal_voltage)

PowertrainDefaults ==
    [motor_power_peak |-> 150, motor_torque_max |-> 310, motor_efficiency |-> 95,
     gear_ratio |-> 9, transmission_efficiency |-> 97, inverter_efficiency |-> 96,
     regen_efficiency |-> 70, regen_max_power |-> 70]

\* PowertrainParameters.get_overall_efficiency, in 1e-6.
get_overall_efficiency(p) ==
    p.motor_efficiency * p.transmission_efficiency * p.inverter_efficiency

AuxDefaults ==
    [hvac_power |-> 0, electronics |-> 3, lighting |-> 1,
     ambient_temp |-> 20, cabin_temp_target |-> 22, hvac_cop |-> 25]

\* AuxiliaryLoads.get_total_aux_power, in 0.1 kW.
get_total_aux_power(a) == a.hvac_power + a.electronics + a.lighting

\* ------------------------------------------------------------------------
\* PART 2: VehicleDynamics
\* ------------------------------------------------------------------------

\* A road grade with its angle's cosine and sine (np.arctan, np.cos, np.sin
\* tabulated, in 1e-3, on the grades the model uses: 0 and the 3-4-5 slopes).
GradeFlat == [tan |-> 0, cos |-> 1000, sin |-> 0]
GradeUp == [tan |-> 750, cos |-> 800, sin |-> 600]
GradeDown == [tan |-> -750, cos |-> 800, sin |-> -600]

\* F = 0.5 * rho * Cd * A * (v + wind)^2, in mN.
aerodynamic_drag_force(veh, velocity, wind_speed) ==
    LET effective_velocity == velocity + wind_speed
    IN MulDiv(effective_velocity * effective_velocity,
              veh.air_density * veh.drag_coefficient * veh.frontal_area,
              (2 * 10 * 100 * 100 * VelScale * VelScale) \div ForceScale)

\* F = m * g * Cr * cos(theta), in mN.
rolling_resistance_force(veh, grade) ==
    MulDiv(MulDiv(veh.mass * veh.gravity, veh.rolling_coeff * ForceScale, 100 * 1000),
           grade.cos, 1000)

\* F = m * g * sin(theta), in mN.
grading_resistance_force(veh, grade) ==
    MulDiv(veh.mass * veh.gravity, grade.sin * ForceScale, 100 * 1000)

\* F = m * a, in mN (a in mm/s^2).
acceleration_force(veh, acceleration) ==
    veh.mass * acceleration * (ForceScale \div AccScale)

total_tractive_force(veh, velocity, acceleration, grade, wind_speed) ==
    LET F_accel == acceleration_force(veh, acceleration)
        F_aero  == aerodynamic_drag_force(veh, velocity, wind_speed)
        F_roll  == rolling_resistance_force(veh, grade)
        F_grade == grading_resistance_force(veh, grade)
    IN F_accel + F_aero + F_roll + F_grade

\* P = v * F, in W.
tractive_power(velocity, force) == MulDiv(force, velocity, VelScale * ForceScale)

\* ------------------------------------------------------------------------
\* PART 3: BatteryModel
\* ------------------------------------------------------------------------

\* np.clip(x, lo, hi) = minimum(maximum(x, lo), hi).
clip(x, lo, hi) == Min(Max(x, lo), hi)

\* The SOC change of one step that ignores the direction of the current.
delta_soc_unsigned(b, current, dt) ==
    -MulDiv(b.coulombic_efficiency * Abs(current), dt * (SocScale \div 100),
            3600 * get_capacity_ah(b))

\* The SOC change of one step with the sign convention reversed (positive
\* current charging).
delta_soc_charging(b, current, dt) ==
    MulDiv(b.coulombic_efficiency * current, dt * (SocScale \div 100),
           3600 * get_capacity_ah(b))

\* The SOC change of one step: -(eta * I * dt) / (3600 * Q_nom_ah).
delta_soc(b, current, dt) ==
    LET Q_nom_ah == get_capacity_ah(b)
    IN -MulDiv(b.coulombic_efficiency * current, dt * (SocScale \div 100),
               3600 * Q_nom_ah)

\* A Coulomb counting that takes the SOC change off instead of adding it.
coulomb_counting_subtracted(b, current, dt, soc_prev) ==
    LET soc_new == soc_prev - delta_soc(b, current, dt)
    IN clip(soc_new, b.soc_min, b.soc_max)

\* A Coulomb counting that does not clamp its result.
coulomb_counting_unclamped(b, current, dt, soc_prev) ==
    soc_prev + delta_soc(b, current, dt)

\* BatteryModel.coulomb_counting.
coulomb_counting(b, current, dt, soc_prev) ==
    LET soc_new == soc_prev + delta_soc(b, current, dt)
    IN clip(soc_new, b.soc_min, b.soc_max)

\* A resistance that rises as the temperature drops below the reference.
get_internal_resistance_rising(b, temperature) ==
    b.resistance_internal * (1000 - (b.resistance_alpha * (temperature - b.temp_reference)))

\* BatteryModel.get_internal_resistance: R_ref * (1 + alpha * (T - T_ref)), in
\* micro-ohm (R_ref in milli-ohm, alpha in 1e-3 per degree, T in degrees).
get_internal_resistance(b, temperature) ==
    LET R_ref == b.resistance_internal
        alpha == b.resistance_alpha
        T_ref == b.temp_reference
    IN R_ref * (1000 + (alpha * (temperature - T_ref)))


\* ------------------------------------------------------------------------
\* numpy on one-dimensional arrays (sequences)
\* ------------------------------------------------------------------------

\* The sum of s[lo..hi], in index order, by halving (the recursion stays
\* shallow on long arrays).
RECURSIVE SumRange(_, _, _)
SumRange(s, lo, hi) ==
    IF lo > hi THEN 0
    ELSE IF lo = hi THEN s[lo]
    ELSE LET mid == (lo + hi) \div 2
         IN SumRange(s, lo, mid) + SumRange(s, mid + 1, hi)

\* An integration by the rectangle rule, on the right sample of each interval.
trapz_rectangle(y, x) ==
    SumRange([i \in 1..(Len(x) - 1) |-> (x[i + 1] - x[i]) * y[i + 1]], 1, Len(x) - 1)

\* np.trapz(y, x): sum(diff(x) * (y[1:] + y[:-1]) / 2.0).
trapz(y, x) ==
    LET n == Len(x)
        terms == [i \in 1..(n - 1) |-> MulDiv(x[i + 1] - x[i], y[i + 1] + y[i], 2)]
    IN SumRange(terms, 1, n - 1)

\* Whether np.gradient(f, x) raises: x must be as long as f (ValueError), and
\* np.diff(x) must have a first element to compare the spacings with
\* (IndexError on arrays shorter than two).
gradient_error(f, x) ==
    IF Len(x) # Len(f) THEN "ValueError"
    ELSE IF Len(f) < 2 THEN "IndexError"
    ELSE "none"

\* Whether np.gradient takes the spacing of x as uniform.
uniform_spacing(x) == \A i \in 2..(Len(x) - 1) : x[i + 1] - x[i] = x[2] - x[1]

\* A gradient that takes (f[i+1] - f[i-1]) / (x[i+1] - x[i-1]) at every
\* interior sample, whatever the spacing.
gradient_at_central(f, x, i, uniform) ==
    LET n == Len(f)
        k == AccScale \div VelScale
    IN IF i = 1 THEN MulDiv(f[2] - f[1], k, x[2] - x[1])
       ELSE IF i = n THEN MulDiv(f[n] - f[n - 1], k, x[n] - x[n - 1])
       ELSE MulDiv(f[i + 1] - f[i - 1], k, x[i + 1] - x[i - 1])

\* np.gradient(f, x) at sample i (1-based), in AccScale/VelScale units of f
\* per unit of x: one-sided differences at the two ends; inside, the central
\* difference on a uniform x and numpy's second-order formula
\* a*f[i-1] + b*f[i] + c*f[i+1] on a non-uniform one.
gradient_at(f, x, i, uniform) ==
    LET n == Len(f)
        k == AccScale \div VelScale
    IN IF i = 1 THEN MulDiv(f[2] - f[1], k, x[2] - x[1])
       ELSE IF i = n THEN MulDiv(f[n] - f[n - 1], k, x[n] - x[n - 1])
       ELSE IF uniform
            THEN MulDiv(f[i + 1] - f[i - 1], k, 2 * (x[2] - x[1]))
       ELSE LET dx1 == x[i] - x[i - 1]
                dx2 == x[i + 1] - x[i]
            IN MulDiv((dx1 * dx1 * f[i + 1]) + ((dx2 * dx2 - dx1 * dx1) * f[i])
                        - (dx2 * dx2 * f[i - 1]),
                      k, dx1 * dx2 * (dx1 + dx2))

gradient(f, x) ==
    Only({array([i \in 1..Len(f) |-> gradient_at(f, x, i, uniform)]) :
             uniform \in {uniform_spacing(x)}})

\* The time arrays on which np.gradient divides by no zero (it would return
\* nan or inf there, with a warning): no two adjacent samples at the same
\* time, and no sample at the time of the sample two before it.
FiniteGradient(x) ==
    /\ \A i \in 1..(Len(x) - 1) : x[i + 1] # x[i]
    /\ \A i \in 1..(Len(x) - 2) : x[i + 2] # x[i]

\* ------------------------------------------------------------------------
\* PART 3: EnergyCalculator.calculate_energy_consumption
\* ------------------------------------------------------------------------

\* Tractive power at the wheels, per sample (W).
wheel_power(calc, time, velocity, grade) ==
    Only({array([i \in 1..Len(velocity) |->
                   tractive_power(velocity[i],
                       total_tractive_force(calc.vehicle, velocity[i], acceleration[i],
                                            grade, 0))]) :
             acceleration \in {gradient(velocity, time)}})

\* A recoverable power without the cap of regen_max_power.
regen_power_uncapped(pt, p) == MulDiv(Abs(p), pt.regen_efficiency, 100)

\* Recoverable power of a braking sample (W).
regen_power(pt, p) ==
    Min(MulDiv(Abs(p), pt.regen_efficiency, 100), pt.regen_max_power * 1000)

\* Motor electrical power of one sample (W): the two branches of the loop.
motor_power(pt, p) ==
    IF p > 0 THEN MulDiv(p, 1000000, get_overall_efficiency(pt))
    ELSE -regen_power(pt, p)

\* A loop that sets P_motor on a braking sample but accumulates nothing.
regen_term_dropped(pt, time, P_wheels, i) == 0

\* What the loop adds to E_regen_recovered at sample i (1-based), in J.
regen_term(pt, time, P_wheels, i) ==
    IF P_wheels[i] > 0 THEN 0
    ELSE IF i > 1 THEN regen_power(pt, P_wheels[i]) * (time[i] - time[i - 1])
    ELSE 0

\* An auxiliary load with the HVAC coupled to the temperatures: 100 W more
\* per degree between the cabin target and the ambient temperature.
aux_power_total_coupled(aux) ==
    MulDiv(get_total_aux_power(aux), 1000, 10)
        + (100 * Abs(aux.cabin_temp_target - aux.ambient_temp))

\* P_aux_total, kW to W.
aux_power_total(aux) ==
    MulDiv(get_total_aux_power(aux), 1000, 10)

\* I_battery = P_battery / nominal_voltage (mA).
battery_current(b, P_battery) == MulDiv(P_battery, CurrentScale, b.nominal_voltage)

\* An iteration that takes the current of the sample that opens the interval
\* rather than of the one that closes it.
soc_step_lagged(b, time, I_battery, soc_prev, i) ==
    coulomb_counting(b, I_battery[i - 1], time[i] - time[i - 1], soc_prev)

\* One iteration of the SOC loop: soc[i] from soc[i-1] (i 1-based, i >= 2).
soc_step(b, time, I_battery, soc_prev, i) ==
    LET dt == time[i] - time[i - 1]
    IN coulomb_counting(b, I_battery[i], dt, soc_prev)

\* The SOC loop from sample lo to sample hi, started from `soc` (the array so
\* far), in time order.
RECURSIVE soc_loop(_, _, _, _, _, _)
soc_loop(b, time, I_battery, soc, lo, hi) ==
    IF lo > hi THEN soc
    ELSE IF lo = hi
         THEN Append(soc, soc_step(b, time, I_battery, soc[Len(soc)], lo))
    ELSE LET mid == (lo + hi) \div 2
         IN Only({soc_loop(b, time, I_battery, first, mid + 1, hi) :
                     first \in {soc_loop(b, time, I_battery, soc, lo, mid)}})

\* A conversion that divides by 3.6e5.
to_kWh_tenfold(joules) == MulDiv(joules, KWhScale, 360000)

\* J to kWh: / 3.6e6.
to_kWh(joules) == MulDiv(joules, KWhScale, 3600000)

\* Stand-ins for the floats inf and nan: Inf compares above every number the
\* model computes, and NaN > 0 is false, as nan > 0 is.
Inf == 2147483647
NaN == -2147483646

\* The float quotient x / y of two numpy scalars: inf or nan where y = 0
\* (a RuntimeWarning, no exception).
np_divide(x, scale, y) ==
    IF x = NaN \/ y = NaN THEN NaN
    ELSE IF y = 0 THEN (IF x > 0 THEN Inf ELSE IF x < 0 THEN -Inf ELSE NaN)
    ELSE IF y = Inf \/ y = -Inf THEN 0
    ELSE MulDiv(x, scale, y)

\* The division of line 495 with its guard left out.
energy_per_km_unguarded(E_total, distance) == np_divide(E_total, KmScale, distance)

\* energy_per_km = E_total / distance if distance > 0 else 0.
energy_per_km_of(E_total, distance) ==
    IF distance > 0 THEN np_divide(E_total, KmScale, distance) ELSE 0

\* A range estimate by floor division (//): whole kilometres.
estimated_range_floored(energy_remaining, energy_per_km) ==
    IF energy_per_km > 0
    THEN (np_divide(energy_remaining, (KWhScale \div SocScale) * RangeScale,
                    energy_per_km) \div RangeScale) * RangeScale
    ELSE 0

\* estimated_range = energy_remaining / energy_per_km if energy_per_km > 0 else 0.
estimated_range_of(energy_remaining, energy_per_km) ==
    IF energy_per_km > 0
    THEN np_divide(energy_remaining, (KWhScale \div SocScale) * RangeScale, energy_per_km)
    ELSE 0

\* P_motor, per sample (W).
motor_power_array(pt, P_wheels) ==
    array([i \in 1..Len(P_wheels) |-> motor_power(pt, P_wheels[i])])

\* E_regen_recovered as the loop leaves it (J).
regen_recovered(pt, time, P_wheels) ==
    SumRange([i \in 1..Len(P_wheels) |-> regen_term(pt, time, P_wheels, i)],
             1, Len(P_wheels))

\* The part of the call before the SOC loop (lines 447-480).
energy_prologue(calc, time, velocity, grade) ==
    Only({Only({[P_wheels |-> P_wheels,
                 P_motor |-> P_motor,
                 E_regen_recovered |-> regen_recovered(calc.powertrain, time, P_wheels),
                 P_aux_total |-> aux_power_total(calc.aux_loads),
                 P_battery |-> array([i \in 1..Len(P_motor) |->
                                         P_motor[i] + aux_power_total(calc.aux_loads)]),
                 I_battery |-> array([i \in 1..Len(P_motor) |->
                                         battery_current(calc.battery,
                                             P_motor[i] + aux_power_total(calc.aux_loads))])] :
                   P_motor \in {motor_power_array(calc.powertrain, P_wheels)}}) :
             P_wheels \in {wheel_power(calc, time, velocity, grade)}})

\* W to kW (in 1e-3 kW): / 1000, per sample.
KWScale == 1000
to_kW(P) == array([i \in 1..Len(P) |-> MulDiv(P[i], KWScale, 1000)])

\* An integrand that keeps the sign of the power: the integral is then the
\* net energy, with the recovered energy taken off.
np_maximum_signed(P) == P

\* np.maximum(P, 0), per sample.
np_maximum_zero(P) == [i \in 1..Len(P) |-> Max(P[i], 0)]

\* The part of the call after the SOC loop (lines 486-517): the result record.
energy_epilogue(calc, time, velocity, pro, soc) ==
    LET E_traction == to_kWh(trapz(np_maximum_zero(pro.P_wheels), time))
        E_motor    == to_kWh(trapz(np_maximum_zero(pro.P_motor), time))
        E_aux      == to_kWh(trapz([i \in 1..Len(time) |-> pro.P_aux_total], time))
        E_total    == E_motor + E_aux
        distance   == MulDiv(trapz(velocity, time), KmScale, VelScale * 1000)
        energy_per_km == energy_per_km_of(E_total, distance)
        soc_final  == soc[Len(soc)]
        energy_remaining == (soc_final - calc.battery.soc_min) * calc.battery.usable_capacity
    IN [time |-> time,
        velocity |-> velocity,
        soc |-> soc,
        power_wheels |-> to_kW(pro.P_wheels),
        power_battery |-> to_kW(pro.P_battery),
        E_traction_kWh |-> E_traction,
        E_motor_kWh |-> E_motor,
        E_aux_kWh |-> E_aux,
        E_total_kWh |-> E_total,
        E_regen_recovered_kWh |-> to_kWh(pro.E_regen_recovered),
        distance_km |-> distance,
        energy_per_km |-> energy_per_km,
        estimated_range_km |-> estimated_range_of(energy_remaining, energy_per_km),
        soc_final |-> soc_final]

\* calculate_energy_consumption as one call: what it raises, or what it returns.
calculate_energy_consumption(calc, time, velocity, grade, temperature) ==
    LET err == gradient_error(velocity, time)
    IN IF err # "none" THEN [status |-> "raised", exc |-> err]
       ELSE Only({Only({[status |-> "returned", exc |-> "none",
                         value |-> energy_epilogue(calc, time, velocity, pro, soc)] :
                           soc \in {soc_loop(calc.battery, time, pro.I_battery,
                                             <<calc.battery.soc_initial>>, 2, Len(time))}}) :
                     pro \in {energy_prologue(calc, time, velocity, grade)}})


\* ------------------------------------------------------------------------
\* PART 4: DriveCycle
\* ------------------------------------------------------------------------

\* The number of samples of np.arange(0, stop, step), step # 0:
\* ceil(stop / step), and none when that is not positive.
arange_len(stop, step) ==
    IF (stop > 0 /\ step > 0) \/ (stop < 0 /\ step < 0)
    THEN (Abs(stop) + Abs(step) - 1) \div Abs(step)
    ELSE 0

\* np.arange(0, stop, step), step # 0.
arange(stop, step) == [i \in 1..arange_len(stop, step) |-> (i - 1) * step]

\* np.sin of an angle given in tenths of a degree in [0, 3600), in 1e-4
\* (Bhaskara's rational approximation, exact at 0, 30, 90, 150 and 180 degrees).
sin_half(x) == MulDiv(4 * x * (1800 - x), 10000, 4050000 - (x * (1800 - x)))

np_sin(a) == IF a <= 1800 THEN sin_half(a) ELSE -sin_half(a - 1800)

\* km/h (in 0.01 km/h) to m/s (in cm/s): / 3.6.
kmh_to_ms(v) == MulDiv(v, 10 * VelScale, 36 * 100)

\* A WLTP profile whose four phases last 600 s each: the phase of time t is
\* floor(t / 600) mod 4 and its sinusoid takes the 600 s for one turn.
wltp_velocity_long_phases(t) ==
    LET q == (t \div 600) % 4
        angle == 6 * (t % 600)
    IN IF q = 0 THEN 2000 + MulDiv(1500, np_sin(angle), 10000)
       ELSE IF q = 1 THEN 4000 + MulDiv(2000, np_sin(angle), 10000)
       ELSE IF q = 2 THEN 6000 + MulDiv(1500, np_sin(angle), 10000)
       ELSE 8000 + MulDiv(2000, np_sin(angle), 10000)

\* The WLTP velocity at time t, in 0.01 km/h (the loop body).
wltp_velocity(t) ==
    LET tm == t % 600
        \* 2 * pi * (phase - offset) * 4 in tenths of a degree: 600 s is four
        \* turns, so one second is 2.4 degrees.
        angle == 24 * (tm % 150)
    IN IF tm < 150 THEN 2000 + MulDiv(1500, np_sin(angle), 10000)
       ELSE IF tm < 300 THEN 4000 + MulDiv(2000, np_sin(angle), 10000)
       ELSE IF tm < 450 THEN 6000 + MulDiv(1500, np_sin(angle), 10000)
       ELSE 8000 + MulDiv(2000, np_sin(angle), 10000)

\* An urban profile whose deceleration forgets the 60 s at which it starts.
urban_velocity_unshifted(t) ==
    LET segment_duration == 100
        t_in_segment == t % segment_duration
    IN IF t_in_segment < 20 THEN MulDiv(t_in_segment, 5000, 20)
       ELSE IF t_in_segment < 60 THEN 5000
       ELSE IF t_in_segment < 80 THEN 5000 - MulDiv(t_in_segment, 5000, 20)
       ELSE 0

\* The urban velocity at time t, in 0.01 km/h (the loop body).
urban_velocity(t) ==
    LET segment_duration == 100
        t_in_segment == t % segment_duration
    IN IF t_in_segment < 20 THEN MulDiv(t_in_segment, 5000, 20)
       ELSE IF t_in_segment < 60 THEN 5000
       ELSE IF t_in_segment < 80 THEN 5000 - MulDiv(t_in_segment - 60, 5000, 20)
       ELSE 0

\* What np.arange raises on a zero step (ZeroDivisionError on integers,
\* ValueError on floats); the generators take which as `arange_exc`.
ArangeErrors == {"ZeroDivisionError", "ValueError"}

generate_wltp_simplified(duration, dt, arange_exc) ==
    LET time == array(arange(duration, dt))
    IN IF dt = 0 THEN [status |-> "raised", exc |-> arange_exc]
       ELSE [status |-> "returned", exc |-> "none", time |-> time,
        velocity |-> array([i \in 1..Len(time) |-> kmh_to_ms(wltp_velocity(time[i]))])]

generate_constant_speed(speed_kmh, duration, dt, arange_exc) ==
    LET time == array(arange(duration, dt))
    IN IF dt = 0 THEN [status |-> "raised", exc |-> arange_exc]
       ELSE [status |-> "returned", exc |-> "none", time |-> time,
        velocity |-> array([i \in 1..Len(time) |-> kmh_to_ms(speed_kmh)])]

generate_urban_cycle(duration, dt, arange_exc) ==
    LET time == array(arange(duration, dt))
    IN IF dt = 0 THEN [status |-> "raised", exc |-> arange_exc]
       ELSE [status |-> "returned", exc |-> "none", time |-> time,
        velocity |-> array([i \in 1..Len(time) |-> kmh_to_ms(urban_velocity(time[i]))])]

\* ------------------------------------------------------------------------
\* PART 5: ModelValidator
\* ------------------------------------------------------------------------

\* The fixture of validate_nissan_leaf_2018.
NissanLeaf ==
    [vehicle |-> [VehicleDefaults EXCEPT !.mass = 1580, !.frontal_area = 227,
                                         !.drag_coefficient = 28, !.rolling_coeff = 9],
     battery |-> [BatteryDefaults EXCEPT !.nominal_capacity = 40, !.usable_capacity = 38,
                                         !.nominal_voltage = 350],
     powertrain |-> [PowertrainDefaults EXCEPT !.motor_power_peak = 110,
                                               !.motor_efficiency = 92,
                                               !.regen_efficiency = 67],
     aux_loads |-> [AuxDefaults EXCEPT !.hvac_power = 0, !.electronics = 3]]

\* Signed percentage error of model against epa, in 0.01 %.
error_percent(model, epa) == MulDiv(model - epa, 100 * 100, epa)

\* The comparison of validate_nissan_leaf_2018 (lines 736-776): consumption in
\* 1e-6 kWh/100 km (the EPA figures 18.9, 20.8, 19.7), range in 1e-3 km (203).
nissan_leaf_validation(results_city, results_hwy) ==
    LET epa_city == 18900000
        epa_highway == 20800000
        epa_combined == 19700000
        epa_range == 203000
        model_city == results_city.energy_per_km * 100
        model_highway == results_hwy.energy_per_km * 100
        model_combined == (model_city + model_highway) \div 2
        model_range == MulDiv(NissanLeaf.battery.usable_capacity * KWhScale, RangeScale,
                              results_city.energy_per_km)
    IN [city |-> [epa |-> epa_city, model |-> model_city,
                  error_percent |-> error_percent(model_city, epa_city)],
        highway |-> [epa |-> epa_highway, model |-> model_highway,
                     error_percent |-> error_percent(model_highway, epa_highway)],
        combined |-> [epa |-> epa_combined, model |-> model_combined,
                      error_percent |-> error_percent(model_combined, epa_combined)],
        range |-> [epa |-> epa_range, model |-> model_range,
                   error_percent |-> error_percent(model_range, epa_range)]]


\* ModelValidator.validate_nissan_leaf_2018: the two simulations (lines
\* 726-734) and their comparison with the EPA figures.
validate_nissan_leaf_2018 ==
    Only({nissan_leaf_validation(results_city, results_hwy) :
             results_city \in {Only({calculate_energy_consumption(
                                        NissanLeaf, c.time, c.velocity, GradeFlat, 25).value :
                                     c \in {generate_urban_cycle(1400, 1, "none")}})},
             results_hwy \in {Only({calculate_energy_consumption(
                                       NissanLeaf, c.time, c.velocity, GradeFlat, 25).value :
                                    c \in {generate_constant_speed(10000, 1800, 1, "none")}})}})

\* ------------------------------------------------------------------------
\* PART 6: EnergyCalculator.predict_range_with_adjustments
\* ------------------------------------------------------------------------

\* Temperatures of this part are in tenths of a degree; the factors f_temp
\* and total_factor are in 1e-6, f_hvac, terrain_factor and traffic_factor in
\* hundredths, ranges in 1e-3 km, range_loss_percent in 0.01 %.
TempScale == 10
FactorScale == 1000000

\* A temperature factor with k_temp = 0.001.
temp_factor_steep(temperature) ==
    LET d == temperature - ((215 * TempScale) \div 10)
    IN Max(FactorScale \div 2, FactorScale - MulDiv(d * d, FactorScale, 1000 * TempScale * TempScale))

\* f_temp = max(0.5, 1 - k_temp * (temperature - T_optimal)^2), with
\* T_optimal = 21.5 and k_temp = 0.0001.
temp_factor(temperature) ==
    LET d == temperature - ((215 * TempScale) \div 10)
    IN Max(FactorScale \div 2, FactorScale - MulDiv(d * d, FactorScale, 10000 * TempScale * TempScale))

\* An HVAC factor whose tiers take their boundaries (>= for >).
hvac_factor_inclusive(temperature) ==
    IF Abs(temperature - (22 * TempScale)) >= 10 * TempScale THEN 80
    ELSE IF Abs(temperature - (22 * TempScale)) >= 5 * TempScale THEN 90
    ELSE 98

\* f_hvac: the three tiers of |temperature - 22|.
hvac_factor(temperature) ==
    IF Abs(temperature - (22 * TempScale)) > 10 * TempScale THEN 80
    ELSE IF Abs(temperature - (22 * TempScale)) > 5 * TempScale THEN 90
    ELSE 98

\* The product x * f_temp * terrain_factor * f_hvac * traffic_factor, left to
\* right as the code multiplies.
times_factors(x, f_temp, terrain_factor, f_hvac, traffic_factor) ==
    MulDiv(MulDiv(MulDiv(MulDiv(x, f_temp, FactorScale), terrain_factor, 100),
                  f_hvac, 100),
           traffic_factor, 100)

\* predict_range_with_adjustments(base_range_km, temperature, terrain_factor,
\* traffic_factor) on Python floats: the quotient adjusted_range / base_range_km
\* of the last field raises ZeroDivisionError on base_range_km = 0.
predict_range_with_adjustments(base_range_km, temperature, terrain_factor, traffic_factor) ==
    LET f_temp == temp_factor(temperature)
        f_hvac == hvac_factor(temperature)
        adjusted_range == times_factors(base_range_km, f_temp, terrain_factor,
                                        f_hvac, traffic_factor)
    IN IF base_range_km = 0 THEN [status |-> "raised", exc |-> "ZeroDivisionError"]
       ELSE [status |-> "returned", exc |-> "none",
             value |-> [base_range_km |-> base_range_km,
                        adjusted_range_km |-> adjusted_range,
                        f_temp |-> f_temp,
                        f_terrain |-> terrain_factor,
                        f_hvac |-> f_hvac,
                        f_traffic |-> traffic_factor,
                        total_factor |-> times_factors(FactorScale, f_temp, terrain_factor,
                                                       f_hvac, traffic_factor),
                        range_loss_km |-> base_range_km - adjusted_range,
                        range_loss_percent |->
                            10000 - MulDiv(adjusted_range, 10000, base_range_km)]]

\* ------------------------------------------------------------------------
\* The program as a state machine
\* ------------------------------------------------------------------------

VARIABLES
    last,   \* the last direct call of a constructor or method: what it was given, what it gave
            \* (forgotten when the caller goes on to make a calculator or a cycle)
    calc,   \* the EnergyCalculator the caller has built (its four records and its BatteryModel)
    cycle,  \* the drive cycle the caller holds: how it was made, and its two arrays
    call    \* per call of calculate_energy_consumption in progress: its position and locals

vars == <<last, calc, cycle, call>>

\* Bounds of the model.
MaxSamples == 3
MaxDuration == 3

\* The two calls that may be in progress at once.
Calls == {1, 2}

NoCall == [op |-> "none"]
NoCalc == [made |-> FALSE]
NoCycle == [src |-> "none", status |-> "none"]
Idle == [pc |-> "idle"]

\* BatteryModel.__init__.
BatteryModel(battery) ==
    [battery |-> battery, soc_history |-> <<>>, voltage_history |-> <<>>,
     current_history |-> <<>>, time_history |-> <<>>]

\* EnergyCalculator.__init__ (self.dynamics holds nothing but the vehicle).
EnergyCalculator(vehicle, powertrain, battery, aux_loads) ==
    [made |-> TRUE, vehicle |-> vehicle, powertrain |-> powertrain, battery |-> battery,
     aux_loads |-> aux_loads, battery_model |-> BatteryModel(battery)]

\* The calculators the caller builds: the defaults with hvac_power = 1.5
\* (test_drive_cycle_integration), the one of test_regenerative_braking, and
\* one with no auxiliary load and a battery that starts inside its limits,
\* and one whose AuxiliaryLoads has a negative hvac_power (the constructor
\* takes any number) and whose battery starts just below soc_max.
Fixtures ==
    {EnergyCalculator(VehicleDefaults, PowertrainDefaults, BatteryDefaults,
                      [AuxDefaults EXCEPT !.hvac_power = 15]),
     EnergyCalculator([VehicleDefaults EXCEPT !.mass = 1800],
                      [PowertrainDefaults EXCEPT !.regen_efficiency = 70,
                                                 !.regen_max_power = 70],
                      BatteryDefaults,
                      [AuxDefaults EXCEPT !.hvac_power = 0, !.electronics = 0]),
     EnergyCalculator(VehicleDefaults, PowertrainDefaults,
                      [BatteryDefaults EXCEPT !.soc_initial = 500000],
                      [AuxDefaults EXCEPT !.hvac_power = 0, !.electronics = 0,
                                          !.lighting = 0]),
     EnergyCalculator(VehicleDefaults, PowertrainDefaults,
                      [BatteryDefaults EXCEPT !.soc_initial = 949950],
                      [AuxDefaults EXCEPT !.hvac_power = -10])}

Init ==
    /\ last = NoCall
    /\ calc = NoCalc
    /\ cycle = NoCycle
    /\ call = [c \in Calls |-> Idle]

AllIdle == \A c \in Calls : call[c].pc = "idle"

\* --- direct calls, before a calculator is built ---

\* VehicleParameters(mass=..., frontal_area=..., drag_coefficient=...).
NewVehicleParameters ==
    /\ ~calc.made
    /\ \E mass \in {999, 1000, 1800, 3000, 3001},
          frontal_area \in {149, 230, 351},
          drag_coefficient \in {19, 28, 51},
          optimize \in BOOLEAN :
         LET fields == [VehicleDefaults EXCEPT !.mass = mass,
                                               !.frontal_area = frontal_area,
                                               !.drag_coefficient = drag_coefficient]
         IN last' = [op |-> "VehicleParameters", args |-> fields, optimize |-> optimize,
                     out |-> VehicleParameters(fields, optimize)]
    /\ UNCHANGED <<calc, cycle, call>>

\* The batteries coulomb_counting is called on directly.
Batteries ==
    {[BatteryDefaults EXCEPT !.nominal_capacity = 75, !.nominal_voltage = 400,
                             !.coulombic_efficiency = 99],
     [BatteryDefaults EXCEPT !.coulombic_efficiency = 100],
     [BatteryDefaults EXCEPT !.nominal_capacity = 40, !.nominal_voltage = 350]}

\* BatteryModel(battery).coulomb_counting(current, dt, soc_prev).
CallCoulombCounting ==
    /\ ~calc.made
    /\ \E b \in Batteries,
          current \in {-200000, -50000, 0, 50000, 200000},
          dt \in {1, 60, 3600},
          soc_prev \in {0, 50000, 100000, 500000, 800000, 950000, 1000000} :
         last' = [op |-> "coulomb_counting", battery |-> b,
                  args |-> [current |-> current, dt |-> dt, soc_prev |-> soc_prev],
                  out |-> coulomb_counting(b, current, dt, soc_prev)]
    /\ UNCHANGED <<calc, cycle, call>>

\* BatteryModel(battery).get_internal_resistance(temperature).
CallGetInternalResistance ==
    /\ ~calc.made
    /\ \E alpha \in {-10, 0, 10}, temperature \in {-20, -10, 0, 25, 40} :
         LET b == [BatteryDefaults EXCEPT !.resistance_alpha = alpha]
         IN last' = [op |-> "get_internal_resistance", battery |-> b,
                     args |-> [temperature |-> temperature],
                     out |-> get_internal_resistance(b, temperature)]
    /\ UNCHANGED <<calc, cycle, call>>

\* The caller takes the step back: coulomb_counting again on the same battery,
\* from the SOC the first call returned, with the opposite current for the
\* same dt. `first` keeps the arguments of the first call.
ReverseCoulombCounting ==
    /\ ~calc.made
    /\ last.op = "coulomb_counting"
    /\ "first" \notin DOMAIN last
    /\ last' = [op |-> "coulomb_counting", battery |-> last.battery,
                args |-> [current |-> -last.args.current, dt |-> last.args.dt,
                          soc_prev |-> last.out],
                out |-> coulomb_counting(last.battery, -last.args.current,
                                         last.args.dt, last.out),
                first |-> last.args]
    /\ UNCHANGED <<calc, cycle, call>>

\* ModelValidator.validate_nissan_leaf_2018(): a static method that builds its
\* own vehicle and calculator, run first thing, as the validation script does.
CallValidateNissanLeaf ==
    /\ ~calc.made
    /\ last = NoCall
    /\ last' = [op |-> "validate_nissan_leaf_2018", out |-> validate_nissan_leaf_2018]
    /\ UNCHANGED <<calc, cycle, call>>

\* EnergyCalculator(vehicle, powertrain, battery, aux).
NewEnergyCalculator ==
    /\ ~calc.made
    /\ \E f \in Fixtures : calc' = f
    /\ last' = NoCall
    /\ UNCHANGED <<cycle, call>>

\* The caller lets go of the calculator and of the cycle.
Drop ==
    /\ calc.made
    /\ AllIdle
    /\ calc' = NoCalc
    /\ cycle' = NoCycle
    /\ UNCHANGED <<last, call>>

\* --- drive cycles ---

Durations == {-2, 0, MaxDuration}
Steps == {-1, 0, 1}

\* calc.predict_range_with_adjustments(base_range_km, temperature,
\* terrain_factor, traffic_factor), called before the caller makes a cycle.
CallPredictRange ==
    /\ calc.made /\ AllIdle
    /\ cycle = NoCycle
    /\ \E base_range_km \in {0, 250000, 400000},
          temperature \in {-100, 119, 120, 169, 170, 215, 220, 270, 271, 320, 321, 1000},
          factors \in {<<100, 100>>, <<90, 85>>} :
         LET terrain_factor == factors[1]
             traffic_factor == factors[2]
         IN last' = [op |-> "predict_range_with_adjustments",
                     args |-> [base_range_km |-> base_range_km, temperature |-> temperature,
                               terrain_factor |-> terrain_factor,
                               traffic_factor |-> traffic_factor],
                     out |-> predict_range_with_adjustments(base_range_km, temperature,
                                                            terrain_factor, traffic_factor)]
    /\ UNCHANGED <<calc, cycle, call>>

\* What a generator call leaves with the caller.
generated(src, args, out) ==
    IF out.status = "raised"
    THEN [src |-> src, args |-> args, status |-> "raised", exc |-> out.exc]
    ELSE [src |-> src, args |-> args, status |-> "returned", exc |-> "none",
          time |-> out.time, velocity |-> out.velocity]

GenerateWltp ==
    /\ calc.made /\ AllIdle
    /\ \E duration \in Durations, dt \in Steps, exc \in ArangeErrors :
         cycle' = generated("generate_wltp_simplified",
                            [duration |-> duration, dt |-> dt],
                            generate_wltp_simplified(duration, dt, exc))
    /\ last' = NoCall
    /\ UNCHANGED <<calc, call>>

GenerateConstantSpeed ==
    /\ calc.made /\ AllIdle
    /\ \E speed_kmh \in {-3600, 10000}, duration \in Durations, dt \in Steps,
          exc \in ArangeErrors :
         cycle' = generated("generate_constant_speed",
                            [speed_kmh |-> speed_kmh, duration |-> duration, dt |-> dt],
                            generate_constant_speed(speed_kmh, duration, dt, exc))
    /\ last' = NoCall
    /\ UNCHANGED <<calc, call>>

GenerateUrban ==
    /\ calc.made /\ AllIdle
    /\ \E duration \in Durations, dt \in Steps, exc \in ArangeErrors :
         cycle' = generated("generate_urban_cycle",
                            [duration |-> duration, dt |-> dt],
                            generate_urban_cycle(duration, dt, exc))
    /\ last' = NoCall
    /\ UNCHANGED <<calc, call>>

\* np.linspace(a, b, n).
linspace(a, b, n) ==
    array([i \in 1..n |-> IF n = 1 THEN a ELSE a + MulDiv(b - a, i - 1, n - 1)])

\* The time arrays a caller makes by hand: n samples dt apart ("uniform"),
\* the same with the last interval doubled ("stretched"), or with the last
\* two samples in the wrong order ("swapped").
Shapes == {"uniform", "stretched", "swapped", "short"}

time_array(n, dt, shape) ==
    array([i \in 1..n |->
             IF shape = "stretched" /\ i = n /\ n >= 2 THEN n * dt
             ELSE IF shape = "swapped" /\ i = n /\ n >= 2 THEN (n - 2) * dt
             ELSE IF shape = "swapped" /\ i = n - 1 THEN (n - 1) * dt
             ELSE (i - 1) * dt])

\* <<first, last>> velocity of the ramps a caller makes (cm/s).
Ramps == {<<2778, 0>>, <<0, 0>>, <<1000, 1000>>, <<0, 2778>>}

\* The caller makes the two arrays itself, as test_regenerative_braking does:
\* a time array and a linear velocity ramp; "short" makes the velocity array
\* one sample shorter than the time array.
MakeCycle ==
    /\ calc.made /\ AllIdle
    /\ \E n \in 0..MaxSamples, dt \in {1, 5, 100}, shape \in Shapes, ramp \in Ramps :
         /\ shape = "short" => n >= 1
         /\ FiniteGradient(time_array(n, dt, shape))
         /\ cycle' = [src |-> "caller", status |-> "returned", exc |-> "none",
                      time |-> time_array(n, dt, shape),
                      velocity |-> linspace(ramp[1], ramp[2],
                                            IF shape = "short" THEN n - 1 ELSE n)]
    /\ last' = NoCall
    /\ UNCHANGED <<calc, call>>

\* --- calculate_energy_consumption, step by step ---

\* The arguments of the two calls: grade and temperature.
CallArgs(c) ==
    IF c = 1 THEN {[grade |-> GradeFlat, temperature |-> 25]}
    ELSE {[grade |-> GradeFlat, temperature |-> -10],
          [grade |-> GradeDown, temperature |-> -10]}

\* Lines 447-480: np.gradient raises on malformed arrays; otherwise the powers,
\* the currents and soc[0] are computed. The caller starts its calls on the
\* arrays as they were made, before it writes into them.
Begin(c) ==
    /\ calc.made
    /\ cycle.status = "returned"
    /\ cycle.src # "written"
    /\ call[c].pc = "idle"
    /\ \E a \in CallArgs(c) :
         LET err == gradient_error(cycle.velocity, cycle.time)
         IN call' = [call EXCEPT ![c] =
               IF err # "none"
               THEN [pc |-> "done", grade |-> a.grade, temperature |-> a.temperature,
                     out |-> [status |-> "raised", exc |-> err]]
               ELSE [pc |-> "loop", grade |-> a.grade, temperature |-> a.temperature,
                     pro |-> energy_prologue(calc, cycle.time, cycle.velocity, a.grade),
                     soc |-> <<calc.battery.soc_initial>>,
                     i |-> 2]]
    /\ UNCHANGED <<last, calc, cycle>>

\* One iteration of a SOC loop that goes through the BatteryModel's history:
\* it appends each SOC to soc_history and takes the previous SOC from there.
SocStepShared(c) ==
    /\ call[c].pc = "loop"
    /\ call[c].i <= Len(cycle.time)
    /\ LET history  == calc.battery_model.soc_history
           soc_prev == IF history = <<>> THEN call[c].soc[call[c].i - 1]
                       ELSE history[Len(history)]
           soc_new  == soc_step(calc.battery, cycle.time, call[c].pro.I_battery,
                                soc_prev, call[c].i)
       IN /\ call' = [call EXCEPT ![c].soc = Append(@, soc_new), ![c].i = @ + 1]
          /\ calc' = [calc EXCEPT !.battery_model.soc_history = Append(@, soc_new)]
    /\ UNCHANGED <<last, cycle>>

\* Lines 482-484: one iteration of the SOC loop.
SocStep(c) ==
    /\ call[c].pc = "loop"
    /\ call[c].i <= Len(cycle.time)
    /\ call' = [call EXCEPT
                  ![c].soc = Append(@, soc_step(calc.battery, cycle.time,
                                                call[c].pro.I_battery,
                                                call[c].soc[call[c].i - 1], call[c].i)),
                  ![c].i = @ + 1]
    /\ UNCHANGED <<last, calc, cycle>>

\* Lines 486-517: the integrals, and the result record is returned.
Finish(c) ==
    /\ call[c].pc = "loop"
    /\ call[c].i > Len(cycle.time)
    /\ call' = [call EXCEPT ![c] =
                  [pc |-> "done", grade |-> call[c].grade,
                   temperature |-> call[c].temperature,
                   out |-> [status |-> "returned", exc |-> "none",
                            value |-> energy_epilogue(calc, cycle.time, cycle.velocity,
                                                      call[c].pro, call[c].soc)]]]
    /\ UNCHANGED <<last, calc, cycle>>

\* The caller is done with what the call gave it.
Discard(c) ==
    /\ call[c].pc = "done"
    /\ call' = [call EXCEPT ![c] = Idle]
    /\ UNCHANGED <<last, calc, cycle>>

\* The caller writes, in place, into the last element of one of the arrays it
\* passed in, after a call has returned. The returned record holds these very
\* arrays under 'time' and 'velocity' (lines 503-504 store the arguments, no
\* copies), so it shows the write too. The caller writes once to a cycle.
WriteArray ==
    /\ calc.made
    /\ cycle.status = "returned"
    /\ cycle.src # "written"
    /\ \A c \in Calls : call[c].pc # "loop"
    /\ \E c \in Calls : call[c].pc = "done" /\ call[c].out.status = "returned"
    /\ \E which \in {"time", "velocity"} :
         LET n == Len(cycle[which])
             written == [cycle[which] EXCEPT ![n] = @ + 1]
             time == IF which = "time" THEN written ELSE cycle.time
             velocity == IF which = "velocity" THEN written ELSE cycle.velocity
         IN /\ n >= 1
            /\ FiniteGradient(time)
            /\ cycle' = [src |-> "written", status |-> "returned", exc |-> "none",
                         time |-> time, velocity |-> velocity]
            /\ call' = [c \in Calls |->
                          IF call[c].pc = "done" /\ call[c].out.status = "returned"
                          THEN [call[c] EXCEPT !.out.value.time = time,
                                               !.out.value.velocity = velocity]
                          ELSE call[c]]
    /\ UNCHANGED <<last, calc>>

Next ==
    \/ NewVehicleParameters
    \/ CallCoulombCounting
    \/ ReverseCoulombCounting
    \/ CallGetInternalResistance
    \/ CallValidateNissanLeaf
    \/ NewEnergyCalculator
    \/ Drop
    \/ CallPredictRange
    \/ GenerateWltp
    \/ GenerateConstantSpeed
    \/ GenerateUrban
    \/ MakeCycle
    \/ \E c \in Calls : Begin(c)
    \/ \E c \in Calls : SocStep(c)
    \/ \E c \in Calls : Finish(c)
    \/ \E c \in Calls : Discard(c)
    \/ WriteArray

Spec == Init /\ [][Next]_vars

\* ------------------------------------------------------------------------
\* The drive-cycle generators, one loop iteration at a time, on long cycles
\* ------------------------------------------------------------------------

\* The longest cycle generated sample by sample (s), and the cycles and time
\* steps the caller asks for.
MaxCycleDuration == 700
CycleDurations == {250, MaxCycleDuration}
SampleSteps == {1, 10}

\* Lines 602-606 and 655-656: time = np.arange(0, duration, dt) and an array
\* of velocities to fill (here: the ones filled so far).
BeginLoop(src) ==
    /\ cycle.status = "none"
    /\ \E duration \in CycleDurations, dt \in SampleSteps :
         cycle' = [src |-> src, status |-> "loop", exc |-> "none",
                   time |-> array(arange(duration, dt)), velocity |-> <<>>]
    /\ UNCHANGED <<last, calc, call>>

BeginWltp == BeginLoop("wltp")

BeginUrban == BeginLoop("urban")

\* Lines 608-618: one iteration of the WLTP loop stores a velocity in km/h.
WltpIteration ==
    /\ cycle.status = "loop" /\ cycle.src = "wltp"
    /\ Len(cycle.velocity) < Len(cycle.time)
    /\ cycle' = [cycle EXCEPT !.velocity =
                    Append(@, wltp_velocity(cycle.time[Len(cycle.velocity) + 1]))]
    /\ UNCHANGED <<last, calc, call>>

\* Lines 660-671: one iteration of the urban loop stores a velocity in km/h.
UrbanIteration ==
    /\ cycle.status = "loop" /\ cycle.src = "urban"
    /\ Len(cycle.velocity) < Len(cycle.time)
    /\ cycle' = [cycle EXCEPT !.velocity =
                    Append(@, urban_velocity(cycle.time[Len(cycle.velocity) + 1]))]
    /\ UNCHANGED <<last, calc, call>>

\* Lines 620-623 and 673-676: the loop is over; velocity = velocity / 3.6 and
\* the two arrays are returned.
ConvertAndReturn ==
    /\ cycle.status = "loop"
    /\ Len(cycle.velocity) = Len(cycle.time)
    /\ cycle' = [cycle EXCEPT
                   !.status = "returned",
                   !.velocity = array([i \in 1..Len(cycle.time) |-> kmh_to_ms(@[i])])]
    /\ UNCHANGED <<last, calc, call>>

\* The caller lets go of the cycle.
ForgetCycle ==
    /\ cycle.status = "returned"
    /\ cycle' = NoCycle
    /\ UNCHANGED <<last, calc, call>>

CycleNext ==
    \/ BeginWltp
    \/ BeginUrban
    \/ WltpIteration
    \/ UrbanIteration
    \/ ConvertAndReturn
    \/ ForgetCycle

CycleSpec == Init /\ [][CycleNext]_vars

\* ------------------------------------------------------------------------
\* Properties
\* ------------------------------------------------------------------------

Done(c) == call[c].pc = "done"
Returned(c) == Done(c) /\ call[c].out.status = "returned"

\* The step is one of call c: it begins, runs one iteration, ends or is
\* discarded.
CallSteps(c) ==
    \/ call'[c].pc # call[c].pc
    \/ call[c].pc = "loop" /\ call'[c] # call[c]

\* The step is the one in which call c ends (raises or returns).
Ends(c) == call[c].pc # "done" /\ call'[c].pc = "done"

\* The step is the one in which call c returns its record.
Returns(c) == Ends(c) /\ call'[c].out.status = "returned"

StrictlyIncreasing(x) == \A i \in 1..(Len(x) - 1) : x[i] < x[i + 1]

\* C1: every element of the returned 'soc' sequence, the first (seeded from
\* soc_initial) included, and the returned soc_final lie in [soc_min, soc_max].
C1_SocWithinLimits ==
    \A c \in Calls :
        Returned(c) =>
            LET r == call[c].out.value
                b == calc.battery
            IN /\ \A i \in 1..Len(r.soc) : b.soc_min <= r.soc[i] /\ r.soc[i] <= b.soc_max
               /\ b.soc_min <= r.soc_final /\ r.soc_final <= b.soc_max

\* C2: calculate_energy_consumption raises no division error; when the
\* integrated distance is 0 the returned energy_per_km is 0, and whenever
\* distance_km is 0 or energy_per_km is 0 the returned estimated_range_km is 0.
C2_DegenerateCyclesGuarded ==
    \A c \in Calls :
        Done(c) =>
            /\ call[c].out.exc \notin {"ZeroDivisionError", "FloatingPointError"}
            /\ Returned(c) =>
                 LET r == call[c].out.value
                 IN /\ r.distance_km = 0 => r.energy_per_km = 0
                    /\ (r.distance_km = 0 \/ r.energy_per_km = 0)
                          => r.estimated_range_km = 0
                    /\ r.energy_per_km \notin {Inf, -Inf, NaN}
                    /\ r.estimated_range_km \notin {Inf, -Inf, NaN}

\* C2 happens: a call has returned from a standstill cycle (distance 0) on
\* which energy was spent, with energy_per_km 0 and estimated_range_km 0.
C2_Witness ==
    \E c \in Calls :
        /\ Returned(c)
        /\ call[c].out.value.distance_km = 0
        /\ call[c].out.value.E_total_kWh > 0
        /\ call[c].out.value.energy_per_km = 0
        /\ call[c].out.value.estimated_range_km = 0

\* C3: coulomb_counting(current, dt, soc_prev) returns
\* soc_prev - (coulombic_efficiency * current * dt) / (3600 * Q_ah), with
\* Q_ah = nominal_capacity * 1000 / nominal_voltage, clamped to
\* [soc_min, soc_max] (to one unit of the fixed point); positive current is
\* discharge (from a SOC inside the limits it lowers the SOC, and negative
\* current does not); 75 kWh, 400 V, 0.99, 50 A for 3600 s from 0.80 gives 0.536
\* within 2%.
C3_CoulombCounting ==
    last.op = "coulomb_counting" =>
        LET b == last.battery
            a == last.args
            Q_mAh == (b.nominal_capacity * 1000 * 1000) \div b.nominal_voltage
            unclamped == a.soc_prev - MulDiv(a.current * a.dt,
                                             b.coulombic_efficiency * (SocScale \div 100),
                                             3600 * Q_mAh)
            expected == IF unclamped < b.soc_min THEN b.soc_min
                        ELSE IF unclamped > b.soc_max THEN b.soc_max ELSE unclamped
        IN /\ Abs(last.out - expected) <= 1
           /\ b.soc_min <= last.out /\ last.out <= b.soc_max
           /\ (b.soc_min <= a.soc_prev /\ a.soc_prev <= b.soc_max) =>
                 /\ a.current > 0 => last.out <= a.soc_prev
                 /\ a.current < 0 => last.out >= a.soc_prev
                 /\ (a.current > 0 /\ a.soc_prev > b.soc_min) => last.out < a.soc_prev
           /\ (/\ b.nominal_capacity = 75 /\ b.nominal_voltage = 400
               /\ b.coulombic_efficiency = 99
               /\ a.current = 50000 /\ a.dt = 3600 /\ a.soc_prev = 800000)
                 => Abs(last.out - 536000) * 100 <= 2 * 536000

\* C3 happens: the example call has been made and returned 0.536.
C3_Witness ==
    /\ last.op = "coulomb_counting"
    /\ last.battery.nominal_capacity = 75 /\ last.battery.nominal_voltage = 400
    /\ last.battery.coulombic_efficiency = 99
    /\ last.args = [current |-> 50000, dt |-> 3600, soc_prev |-> 800000]
    /\ last.out = 536000

\* The cycle the caller holds decelerates linearly, in time, from a positive
\* speed to zero.
LinearDecelerationToZero ==
    /\ cycle.status = "returned"
    /\ Len(cycle.time) = Len(cycle.velocity)
    /\ Len(cycle.time) >= 2
    /\ StrictlyIncreasing(cycle.time)
    /\ LET n == Len(cycle.time)
           t == cycle.time
           v == cycle.velocity
       IN /\ v[1] > 0 /\ v[n] = 0
          /\ \A i \in 1..n : (v[1] - v[i]) * (t[n] - t[1]) = v[1] * (t[i] - t[1])

RegenEnabled == calc.powertrain.regen_efficiency > 0 /\ calc.powertrain.regen_max_power > 0

\* Sample i of the returned wheel power (in 1e-3 kW) is a braking sample
\* after the first, of at least 4 J recoverable (the smallest energy the
\* 1e-6 kWh shows).
BrakingSample(r, i) ==
    i >= 2 /\ r.power_wheels[i] * calc.powertrain.regen_efficiency <= -400

C5_WithinFivePercent ==
    last.op = "validate_nissan_leaf_2018" =>
        \A m \in {"city", "highway", "combined", "range"} :
            Abs(last.out[m].error_percent) <= 500

\* C6: constructing VehicleParameters with mass outside [1000, 3000],
\* frontal_area outside [1.5, 3.5] or drag_coefficient outside [0.2, 0.5]
\* fails with a ConfigurationError, and succeeds when all three are inside.
C6_ConfigurationError ==
    last.op = "VehicleParameters" =>
        IF /\ 1000 <= last.args.mass /\ last.args.mass <= 3000
           /\ 150 <= last.args.frontal_area /\ last.args.frontal_area <= 350
           /\ 20 <= last.args.drag_coefficient /\ last.args.drag_coefficient <= 50
        THEN last.out.status = "ok"
        ELSE last.out.status = "raised" /\ last.out.exc = "ConfigurationError"

Generators ==
    {"generate_wltp_simplified", "generate_constant_speed", "generate_urban_cycle"}

\* C7: each generator fails with an InvalidParameterError when duration <= 0
\* or dt <= 0, and returns no cycle.
C7_InvalidParameterError ==
    (cycle.src \in Generators /\ (cycle.args.duration <= 0 \/ cycle.args.dt <= 0))
        => cycle.status = "raised" /\ cycle.exc = "InvalidParameterError"

\* The arrays the caller holds are malformed: zero-length, of different
\* lengths, or with a time sequence that is not strictly increasing.
Malformed ==
    \/ Len(cycle.time) = 0
    \/ Len(cycle.velocity) = 0
    \/ Len(cycle.time) # Len(cycle.velocity)
    \/ ~StrictlyIncreasing(cycle.time)

\* C8: calculate_energy_consumption called with malformed arrays fails with an
\* InvalidParameterError instead of returning a result.
C8_MalformedArraysRejected ==
    \A c \in Calls :
        (Done(c) /\ Malformed)
            => call[c].out.status = "raised" /\ call[c].out.exc = "InvalidParameterError"

\* C9: every (time, velocity) pair a generator returns is well formed: equal
\* lengths, time[0] = 0, time strictly increasing with constant step dt, and
\* every velocity >= 0.
C9_GeneratedCycleWellFormed ==
    (cycle.src \in Generators /\ cycle.status = "returned") =>
        /\ Len(cycle.time) = Len(cycle.velocity)
        /\ Len(cycle.time) >= 1
        /\ cycle.time[1] = 0
        /\ StrictlyIncreasing(cycle.time)
        /\ \A i \in 1..(Len(cycle.time) - 1) :
               cycle.time[i + 1] - cycle.time[i] = cycle.args.dt
        /\ \A i \in 1..Len(cycle.velocity) : cycle.velocity[i] >= 0

\* C10: under any interleaving of calls, each call gives exactly what the call
\* run alone on the same inputs gives, and no step of a call changes the
\* parameter records, the BatteryModel or the input arrays.
C10_CallsShareNoState ==
    [][\A c \in Calls :
          /\ Ends(c) => call'[c].out = calculate_energy_consumption(
                                          calc, cycle.time, cycle.velocity,
                                          call'[c].grade, call'[c].temperature)
          /\ CallSteps(c) => (calc' = calc /\ cycle' = cycle)]_vars

\* C10 happens: two calls on the same calculator and arrays, interleaved, have
\* both returned, with different results (they were given different grades).
C10_Witness ==
    /\ Returned(1) /\ Returned(2)
    /\ Len(call[1].out.value.soc) >= 3
    /\ call[1].out.value # call[2].out.value
    /\ calc.battery_model = BatteryModel(calc.battery)

\* C11: once a call has returned its record, no later step (another call, or
\* the caller writing into the time or velocity array it passed in) changes
\* any value held in the record.
C11_ResultImmutable ==
    [][\A c \in Calls :
          (Returned(c) /\ call'[c].pc = "done")
              => call'[c].out.value = call[c].out.value]_vars

\* The step of coulomb_counting from soc_prev is not clamped: the SOC it
\* computes is inside the limits before the clip.
Unclamped(b, a) ==
    LET soc_new == a.soc_prev + delta_soc(b, a.current, a.dt)
    IN b.soc_min <= soc_new /\ soc_new <= b.soc_max

\* C12: with coulombic_efficiency = 1, where neither step is clamped,
\* coulomb_counting(-I, dt, coulomb_counting(I, dt, soc_prev)) = soc_prev.
C12_RoundTrip ==
    (/\ last.op = "coulomb_counting"
     /\ "first" \in DOMAIN last
     /\ last.battery.coulombic_efficiency = 100
     /\ Unclamped(last.battery, last.first)
     /\ Unclamped(last.battery, last.args))
        => last.out = last.first.soc_prev

\* C12 happens: a lossless step that moved the SOC, unclamped, has been taken
\* back, unclamped, and the SOC is the first one again.
C12_Witness ==
    /\ last.op = "coulomb_counting"
    /\ "first" \in DOMAIN last
    /\ last.battery.coulombic_efficiency = 100
    /\ Unclamped(last.battery, last.first)
    /\ Unclamped(last.battery, last.args)
    /\ last.first.current = 50000
    /\ last.args.soc_prev < last.first.soc_prev
    /\ last.out = last.first.soc_prev

\* The arrays the caller holds are a well-formed drive cycle, as they were
\* passed: equal lengths, strictly increasing time, no negative velocity.
WellFormedCycle ==
    /\ cycle.src # "written"
    /\ Len(cycle.time) = Len(cycle.velocity)
    /\ StrictlyIncreasing(cycle.time)
    /\ \A i \in 1..Len(cycle.velocity) : cycle.velocity[i] >= 0

\* C13: on a well-formed drive cycle, with any parameter records the
\* constructors accept, E_traction_kWh, E_motor_kWh, E_aux_kWh, E_total_kWh,
\* E_regen_recovered_kWh and distance_km are all >= 0.
C13_AggregatesNonNegative ==
    \A c \in Calls :
        (Returned(c) /\ WellFormedCycle) =>
            LET r == call[c].out.value
            IN /\ r.E_traction_kWh >= 0 /\ r.E_motor_kWh >= 0
               /\ r.E_aux_kWh >= 0 /\ r.E_total_kWh >= 0
               /\ r.E_regen_recovered_kWh >= 0 /\ r.distance_km >= 0

\* Twice the sum over the first n intervals of average velocity times time
\* step: the sum of (v[i] + v[i+1]) * (t[i+1] - t[i]), in cm.
RECURSIVE TwiceDistance(_, _, _)
TwiceDistance(v, t, n) ==
    IF n <= 0 THEN 0
    ELSE TwiceDistance(v, t, n - 1) + ((v[n] + v[n + 1]) * (t[n + 1] - t[n]))

\* C14: the distance_km a call returns is the sum over adjacent samples of
\* ((v[i-1] + v[i]) / 2) * (t[i] - t[i-1]), divided by 1000, on uniform and on
\* non-uniform time steps (to the rounding of the fixed point: half a
\* centimetre, 5e-6 km, per interval).
C14_TrapezoidDistance ==
    [][\A c \in Calls :
          Returns(c) =>
              LET n == Len(cycle.time) - 1
                  expected == MulDiv(TwiceDistance(cycle.velocity, cycle.time, n),
                                     KmScale, 2 * VelScale * 1000)
              IN Abs(call'[c].out.value.distance_km - expected) <= 10 * n]_vars

\* C14 happens: a call has returned from a cycle of three or more samples with
\* non-uniform time steps and changing speed, with a positive distance.
C14_Witness ==
    \E c \in Calls :
        /\ Returned(c) /\ WellFormedCycle
        /\ Len(cycle.time) >= 3
        /\ cycle.time[3] - cycle.time[2] # cycle.time[2] - cycle.time[1]
        /\ cycle.velocity[1] # cycle.velocity[2]
        /\ call[c].out.value.distance_km > 0

PredictReturned ==
    last.op = "predict_range_with_adjustments" /\ last.out.status = "returned"

\* C15: f_temp = max(0.5, 1 - 0.0001 * (T - 21.5)^2), and f_hvac is 0.80 when
\* |T - 22| > 10, 0.90 when > 5, 0.98 otherwise; |T - 22| = 10 gives 0.90 and
\* |T - 22| = 5 gives 0.98 (T in tenths of a degree, f_temp in 1e-6).
C15_TemperatureAndHvacFactors ==
    PredictReturned =>
        LET T == last.args.temperature
            v == last.out.value
            parabola == 1000000 - ((T - 215) * (T - 215))
            away == IF T >= 220 THEN T - 220 ELSE 220 - T
        IN /\ v.f_temp = (IF parabola < 500000 THEN 500000 ELSE parabola)
           /\ away > 100 => v.f_hvac = 80
           /\ (away > 50 /\ away <= 100) => v.f_hvac = 90
           /\ away <= 50 => v.f_hvac = 98

\* C15 happens: the call was made at 32 degrees, on the boundary |T - 22| = 10,
\* and gave f_hvac = 0.90.
C15_Witness ==
    /\ PredictReturned
    /\ last.args.temperature = 320
    /\ last.out.value.f_hvac = 90
    /\ last.out.value.f_temp = 988975

\* C16: for every base_range_km >= 0 the call returns, without raising, a
\* record with adjusted_range_km = base * f_temp * terrain * f_hvac * traffic,
\* total_factor the product of the four factors, range_loss_km = base -
\* adjusted and range_loss_percent = 100 * (1 - adjusted / base).
C16_RangeRecord ==
    (last.op = "predict_range_with_adjustments" /\ last.args.base_range_km >= 0) =>
        /\ last.out.status = "returned"
        /\ LET a == last.args
               v == last.out.value
           IN /\ v.adjusted_range_km =
                    times_factors(a.base_range_km, v.f_temp, a.terrain_factor,
                                  v.f_hvac, a.traffic_factor)
              /\ v.total_factor =
                    times_factors(FactorScale, v.f_temp, v.f_terrain, v.f_hvac, v.f_traffic)
              /\ v.range_loss_km = a.base_range_km - v.adjusted_range_km
              /\ v.range_loss_percent =
                    10000 - MulDiv(v.adjusted_range_km, 10000, a.base_range_km)

\* C17: with terrain_factor = 1 and traffic_factor = 1, at 21.5 degrees the
\* adjusted range is within 5% of the base range, and at -10 degrees it is
\* lower than the base range by between 20% and 40% of it.
C17_OptimalAndCold ==
    (/\ PredictReturned
     /\ last.args.terrain_factor = 100 /\ last.args.traffic_factor = 100) =>
        LET base == last.args.base_range_km
            adjusted == last.out.value.adjusted_range_km
        IN /\ last.args.temperature = 215 => Abs(adjusted - base) * 100 <= 5 * base
           /\ last.args.temperature = -100 =>
                 /\ 20 * base <= (base - adjusted) * 100
                 /\ (base - adjusted) * 100 <= 40 * base

\* C17 happens: the call was made with base_range = 400 at -10 degrees, both
\* other factors 1, and lost 27.9% of the range.
C17_Witness ==
    /\ PredictReturned
    /\ last.args = [base_range_km |-> 400000, temperature |-> -100,
                    terrain_factor |-> 100, traffic_factor |-> 100]
    /\ last.out.value.adjusted_range_km = 288248

OtherAuxTemperatures(k) ==
    [k EXCEPT !.aux_loads.ambient_temp = -10,
              !.aux_loads.cabin_temp_target = 18,
              !.aux_loads.hvac_cop = 30]

\* C19: a call returns, in every field, what the call that differs from it
\* only in ambient_temp, cabin_temp_target, hvac_cop and the temperature
\* argument returns.
C19_TemperatureInert ==
    [][\A c \in Calls :
          Returns(c) =>
              call'[c].out = calculate_energy_consumption(
                                 OtherAuxTemperatures(calc), cycle.time, cycle.velocity,
                                 call'[c].grade,
                                 IF call'[c].temperature = 25 THEN -10 ELSE 25)]_vars

\* C19 happens: two calls on the same arrays and grade, at 25 and at -10
\* degrees, have both returned, with the same record, energy spent.
C19_Witness ==
    /\ Returned(1) /\ Returned(2)
    /\ call[1].temperature # call[2].temperature
    /\ call[1].grade = call[2].grade
    /\ call[1].out = call[2].out
    /\ Len(call[1].out.value.soc) >= 3
    /\ call[1].out.value.E_total_kWh > 0

\* The motor electrical power the claim gives for wheel power p (W): p over
\* the overall efficiency when p > 0, and the negative of
\* min(|p| * regen_efficiency, regen_max_power * 1000) otherwise.
ExpectedMotorPower(p) ==
    LET pt == calc.powertrain
        overall == pt.motor_efficiency * pt.transmission_efficiency * pt.inverter_efficiency
        recoverable == MulDiv(IF p < 0 THEN -p ELSE p, pt.regen_efficiency, 100)
        cap == pt.regen_max_power * 1000
    IN IF p > 0 THEN MulDiv(p, 1000000, overall)
       ELSE IF recoverable < cap THEN -recoverable ELSE -cap

\* C20: in a call, at every sample with wheel power > 0 the motor power is
\* the wheel power over the overall efficiency, at every other sample it is
\* -min(|wheel power| * regen_efficiency, regen_max_power * 1000 W), and the
\* recovered power of no sample exceeds regen_max_power in watts. The
\* returned power_battery is that motor power plus the auxiliary load.
C20_MotorPowerBranches ==
    \A c \in Calls :
        /\ call[c].pc = "loop" =>
             \A i \in 1..Len(call[c].pro.P_wheels) :
                 /\ call[c].pro.P_motor[i] = ExpectedMotorPower(call[c].pro.P_wheels[i])
                 /\ -call[c].pro.P_motor[i] <= calc.powertrain.regen_max_power * 1000
        /\ Returned(c) =>
             LET r == call[c].out.value
                 aux == (calc.aux_loads.hvac_power + calc.aux_loads.electronics
                           + calc.aux_loads.lighting) * 100
             IN \A i \in 1..Len(r.power_wheels) :
                    r.power_battery[i] = ExpectedMotorPower(r.power_wheels[i]) + aux

\* C20 happens: calls are under way in which one sample is driven (the motor
\* draws more than the wheels give) and one braking sample is cut to the cap.
C20_Witness ==
    /\ \E c \in Calls :
          /\ call[c].pc = "loop"
          /\ \E i \in 1..Len(call[c].pro.P_wheels) :
                /\ call[c].pro.P_wheels[i] > 0
                /\ call[c].pro.P_motor[i] > call[c].pro.P_wheels[i]
    /\ \E c \in Calls :
          /\ call[c].pc = "loop"
          /\ \E i \in 1..Len(call[c].pro.P_wheels) :
                /\ call[c].pro.P_wheels[i] * calc.powertrain.regen_efficiency
                      < -(calc.powertrain.regen_max_power * 100000)
                /\ call[c].pro.P_motor[i] = -(calc.powertrain.regen_max_power * 1000)


\* The recovered power of each sample (W): regen_power at a braking sample,
\* 0 at a propulsion sample.
RecoveredPower(pt, P_wheels) ==
    array([i \in 1..Len(P_wheels) |->
             IF P_wheels[i] > 0 THEN 0 ELSE regen_power(pt, P_wheels[i])])

\* C21: the E_regen_recovered_kWh a call returns is the trapezoidal-rule
\* accumulation of the per-sample recovered power over each elapsed interval
\* (0 at propulsion samples), in joules divided by 3.6e6 (to one unit of the
\* fixed point, 1e-6 kWh, per interval).
C21_RegenTrapezoid ==
    [][\A c \in Calls :
          Returns(c) =>
              LET recovered == RecoveredPower(calc.powertrain, call[c].pro.P_wheels)
                  expected  == to_kWh(trapz(recovered, cycle.time))
              IN Abs(call'[c].out.value.E_regen_recovered_kWh - expected)
                     <= Len(cycle.time)]_vars


\* C22: the SOC trajectory is a fold in time order. soc[0] is the battery's
\* configured soc_initial; every later soc[i] is coulomb_counting(I[i],
\* t[i] - t[i-1], soc[i-1]) with I[i] = (motor power[i] + total auxiliary
\* power in W) / nominal_voltage; an iteration leaves the earlier values as
\* they are, and the record returns the trajectory and its last value.
C22_SocSequentialFold ==
    [][\A c \in Calls :
          /\ (call[c].pc = "idle" /\ call'[c].pc = "loop") =>
                 call'[c].soc = <<calc.battery.soc_initial>>
          /\ (call[c].pc = "loop" /\ call'[c].pc = "loop" /\ call'[c] # call[c]) =>
                 LET i == Len(call[c].soc) + 1
                     I == battery_current(calc.battery,
                              motor_power(calc.powertrain, call[c].pro.P_wheels[i])
                                  + aux_power_total(calc.aux_loads))
                 IN call'[c].soc =
                        Append(call[c].soc,
                               coulomb_counting(calc.battery, I,
                                                cycle.time[i] - cycle.time[i - 1],
                                                call[c].soc[i - 1]))
          /\ (call[c].pc = "loop" /\ Returns(c)) =>
                 /\ call'[c].out.value.soc = call[c].soc
                 /\ Len(call[c].soc) = Len(cycle.time)
                 /\ call'[c].out.value.soc_final = call[c].soc[Len(call[c].soc)]]_vars

\* C22 happens: a call has returned a trajectory of three or more values that
\* moves at each step, on non-uniform time steps.
C22_Witness ==
    \E c \in Calls :
        /\ Returned(c) /\ WellFormedCycle
        /\ Len(call[c].out.value.soc) >= 3
        /\ cycle.time[3] - cycle.time[2] # cycle.time[2] - cycle.time[1]
        /\ LET soc == call[c].out.value.soc
           IN soc[2] # soc[1] /\ soc[3] # soc[2]


\* The prefix-scan reformulation of the SOC loop: the SOC deltas of the steps
\* are computed from the currents beforehand, and value k of the trajectory
\* (1-based) is soc_initial plus the running sum of the deltas up to k.
PrefixScan(b, time, I_battery, k) ==
    b.soc_initial
        + SumRange([j \in 1..k |->
                      IF j = 1 THEN 0
                      ELSE delta_soc(b, I_battery[j], time[j] - time[j - 1])], 1, k)

\* The values of the prefix scan after the seed stay within the SOC limits.
ScanWithinLimits(b, time, I_battery, n) ==
    \A k \in 2..n :
        /\ PrefixScan(b, time, I_battery, k) >= b.soc_min
        /\ PrefixScan(b, time, I_battery, k) <= b.soc_max

Positive(P) == [i \in 1..Len(P) |-> Max(P[i], 0)]

\* C24: the call integrates by the trapezoidal rule over the given time
\* samples: E_traction_kWh is the integral of max(wheel power, 0), E_motor_kWh
\* that of max(motor power, 0), E_aux_kWh the constant auxiliary power times
\* (t[last] - t[0]), each in joules divided by 3.6e6 (to one unit of the fixed
\* point, 1e-6 kWh), and E_total_kWh = E_motor_kWh + E_aux_kWh exactly.
C24_TrapezoidEnergies ==
    [][\A c \in Calls :
          Returns(c) =>
              LET n == Len(cycle.time)
                  r == call'[c].out.value
                  pro == call[c].pro
                  traction == TwiceDistance(Positive(pro.P_wheels), cycle.time, n - 1)
                  motor == TwiceDistance(Positive(pro.P_motor), cycle.time, n - 1)
                  aux == aux_power_total(calc.aux_loads)
                             * (cycle.time[n] - cycle.time[1])
              IN /\ Abs(r.E_traction_kWh - MulDiv(traction, KWhScale, 2 * 3600000)) <= 1
                 /\ Abs(r.E_motor_kWh - MulDiv(motor, KWhScale, 2 * 3600000)) <= 1
                 /\ Abs(r.E_aux_kWh - MulDiv(aux, KWhScale, 3600000)) <= 1
                 /\ r.E_total_kWh = r.E_motor_kWh + r.E_aux_kWh]_vars

\* C24 happens: on a cycle of three or more samples with non-uniform time
\* steps, both calls have returned: one with positive traction, motor and
\* auxiliary energies, one from samples of negative wheel power.
C24_Witness ==
    /\ \A c \in Calls : Returned(c)
    /\ WellFormedCycle
    /\ Len(cycle.time) >= 3
    /\ cycle.time[3] - cycle.time[2] # cycle.time[2] - cycle.time[1]
    /\ \E c \in Calls :
           /\ Returned(c)
           /\ call[c].out.value.E_traction_kWh > 0
           /\ call[c].out.value.E_motor_kWh > call[c].out.value.E_traction_kWh
           /\ call[c].out.value.E_aux_kWh > 0
    /\ \E c \in Calls :
           /\ Returned(c)
           /\ \E i \in 1..Len(cycle.time) : call[c].out.value.power_wheels[i] < 0


\* C25: when distance_km > 0 and energy_per_km > 0, the call returns
\* energy_per_km = E_total_kWh / distance_km and estimated_range_km =
\* (soc_final - soc_min) * usable_capacity / energy_per_km, where soc_final is
\* the last element of the SOC trajectory.
C25_EnergyPerKmAndRange ==
    \A c \in Calls :
        Returned(c) =>
            LET r == call[c].out.value
                b == calc.battery
            IN (r.distance_km > 0 /\ r.energy_per_km > 0) =>
                   /\ r.soc_final = r.soc[Len(r.soc)]
                   /\ r.energy_per_km = MulDiv(r.E_total_kWh, KmScale, r.distance_km)
                   /\ r.estimated_range_km =
                          MulDiv((r.soc_final - b.soc_min) * b.usable_capacity,
                                 RangeScale * (KWhScale \div SocScale),
                                 r.energy_per_km)

\* C25 happens: a call has returned from a cycle of three or more samples
\* with a positive distance, a positive energy per km, a final SOC that is
\* not the initial one, and a positive range that is no whole number of km.
C25_Witness ==
    \E c \in Calls :
        /\ Returned(c)
        /\ Len(call[c].out.value.soc) >= 3
        /\ call[c].out.value.distance_km > 0
        /\ call[c].out.value.energy_per_km > 0
        /\ call[c].out.value.soc_final < calc.battery.soc_initial
        /\ call[c].out.value.estimated_range_km > 0
        /\ call[c].out.value.estimated_range_km % RangeScale # 0


\* The one-sided difference of v over the interval from sample i to sample j
\* (mm/s^2).
Difference(v, t, i, j) == MulDiv(v[j] - v[i], AccScale \div VelScale, t[j] - t[i])

\* The second-order difference at an interior sample i of non-uniform time
\* steps hs = t[i] - t[i-1] and hd = t[i+1] - t[i]:
\* (hs^2 v[i+1] + (hd^2 - hs^2) v[i] - hd^2 v[i-1]) / (hs hd (hs + hd)).
SecondOrderDifference(v, t, i) ==
    LET hs == t[i] - t[i - 1]
        hd == t[i + 1] - t[i]
    IN MulDiv((hs * hs * v[i + 1]) + (((hd * hd) - (hs * hs)) * v[i])
                  - (hd * hd * v[i - 1]),
              AccScale \div VelScale, hs * hd * (hs + hd))

\* The wheel power of sample i of call c that an acceleration gives.
WheelPowerWith(c, i, acceleration) ==
    tractive_power(cycle.velocity[i],
                   total_tractive_force(calc.vehicle, cycle.velocity[i], acceleration,
                                        call[c].grade, 0))

\* C26 as stated: for any strictly increasing time sequence, the wheel powers
\* of a call are those of the forward difference at the first sample, the
\* backward difference at the last, and the central difference
\* (v[i+1] - v[i-1]) / (t[i+1] - t[i-1]) at every interior sample.
C26_CentralDifferences ==
    \A c \in Calls :
        (call[c].pc = "loop" /\ StrictlyIncreasing(cycle.time)) =>
            LET n == Len(cycle.time)
            IN \A i \in 1..n :
                   call[c].pro.P_wheels[i] =
                       WheelPowerWith(c, i,
                           Difference(cycle.velocity, cycle.time,
                                      Max(i - 1, 1), Min(i + 1, n)))

\* C26, amended: the differences at the two ends are as stated; at an
\* interior sample the acceleration is the central difference when all the
\* time steps are equal, and the second-order difference weighted by the two
\* adjacent steps when they are not.
C26_GradientOfVelocity ==
    \A c \in Calls :
        (call[c].pc = "loop" /\ StrictlyIncreasing(cycle.time)) =>
            LET n == Len(cycle.time)
                t == cycle.time
                equal_steps == \A i \in 1..(n - 1) : t[i + 1] - t[i] = t[2] - t[1]
            IN \A i \in 1..n :
                   call[c].pro.P_wheels[i] =
                       WheelPowerWith(c, i,
                           IF i = 1 \/ i = n \/ equal_steps
                           THEN Difference(cycle.velocity, t, Max(i - 1, 1), Min(i + 1, n))
                           ELSE SecondOrderDifference(cycle.velocity, t, i))

\* C26 happens: a call has computed its wheel powers on strictly increasing,
\* non-uniform time steps, and the wheel power of an interior sample is not
\* the one the central difference gives.
C26_Witness ==
    \E c \in Calls :
        /\ call[c].pc = "loop"
        /\ StrictlyIncreasing(cycle.time)
        /\ \E i \in 2..(Len(cycle.time) - 1) :
               /\ cycle.time[i + 1] - cycle.time[i] # cycle.time[i] - cycle.time[i - 1]
               /\ call[c].pro.P_wheels[i] #
                      WheelPowerWith(c, i, Difference(cycle.velocity, cycle.time,
                                                      i - 1, i + 1))


\* A generator has returned its two arrays.
CycleReturned(src) == cycle.status = "returned" /\ cycle.src = src

\* The centre (0.01 km/h) of WLTP phase q = 0..3: 20, 40, 60 and 80 km/h.
PhaseCentre(q) == 2000 * (q + 1)

\* C27 as stated: the sample at time t lies in the phase numbered
\* floor(t / 600) mod 4, whose sinusoid is centred at 20, 40, 60 or
\* 80 km/h: its velocity, in m/s, is within the largest amplitude of the
\* profile (20 km/h) of that centre.
C27_SixHundredSecondPhases ==
    CycleReturned("wltp") =>
        \A i \in 1..Len(cycle.time) :
            LET centre == PhaseCentre((cycle.time[i] \div 600) % 4)
            IN /\ cycle.velocity[i] >= kmh_to_ms(centre - 2000)
               /\ cycle.velocity[i] <= kmh_to_ms(centre + 2000)

\* C27, amended: the profile repeats every 600 s and has four phases of
\* 150 s each; the sample at time t lies in phase floor((t mod 600) / 150),
\* a sinusoid of one turn per phase centred at 20, 40, 60 or 80 km/h with
\* an amplitude of 15, 20, 15 or 20 km/h, and is emitted in m/s (km/h / 3.6).
C27_QuarterPhases ==
    CycleReturned("wltp") =>
        \A i \in 1..Len(cycle.time) :
            LET t == cycle.time[i]
                q == (t % 600) \div 150
                amplitude == IF q = 0 \/ q = 2 THEN 1500 ELSE 2000
                turn == np_sin((3600 * (t % 150)) \div 150)
            IN /\ cycle.velocity[i] =
                      MulDiv(PhaseCentre(q) + MulDiv(amplitude, turn, 10000), 10, 36)
               /\ (i > 600 \div (cycle.time[2] - cycle.time[1])) =>
                      cycle.velocity[i] =
                          cycle.velocity[i - (600 \div (cycle.time[2] - cycle.time[1]))]

\* C27 happens: a WLTP cycle longer than one period has been returned, with a
\* sample in each of the four phases that is off its centre, and a sample of
\* the second phase above 40 km/h.
C27_Witness ==
    /\ CycleReturned("wltp")
    /\ cycle.time[Len(cycle.time)] > 600
    /\ \A q \in 0..3 :
           \E i \in 1..Len(cycle.time) :
               /\ (cycle.time[i] % 600) \div 150 = q
               /\ cycle.velocity[i] # kmh_to_ms(PhaseCentre(q))
    /\ \E i \in 1..Len(cycle.time) :
           /\ cycle.time[i] \in 150..299
           /\ cycle.velocity[i] > kmh_to_ms(4000)


\* The urban profile as C28 words it, in 0.01 km/h, at tau = t mod 100: a
\* linear rise from 0 to 50 km/h on [0, 20), 50 km/h on [20, 60), a linear
\* fall from 50 km/h to 0 on [60, 80), and 0 on [80, 100).
UrbanProfile(tau) ==
    IF tau < 20 THEN (5000 * tau) \div 20
    ELSE IF tau < 60 THEN 5000
    ELSE IF tau < 80 THEN (5000 * (80 - tau)) \div 20
    ELSE 0

\* C28: generate_urban_cycle repeats its 100-second segment (rise, cruise,
\* fall, stop), emits the velocities in m/s, and no two adjacent samples
\* differ by more than one ramp step (2.5 km/h per second of time step; one
\* unit of the fixed point is allowed for the rounding of the conversion).
C28_UrbanSegments ==
    /\ (cycle.status = "loop" /\ cycle.src = "urban") =>
           /\ \A i \in 1..Len(cycle.velocity) :
                  cycle.velocity[i] = UrbanProfile(cycle.time[i] % 100)
           /\ \A i \in 1..(Len(cycle.velocity) - 1) :
                  Abs(cycle.velocity[i + 1] - cycle.velocity[i])
                      <= 250 * (cycle.time[i + 1] - cycle.time[i])
    /\ CycleReturned("urban") =>
           /\ \A i \in 1..Len(cycle.time) :
                  cycle.velocity[i] = MulDiv(UrbanProfile(cycle.time[i] % 100), 10, 36)
           /\ \A i \in 1..(Len(cycle.time) - 1) :
                  Abs(cycle.velocity[i + 1] - cycle.velocity[i])
                      <= MulDiv(250 * (cycle.time[i + 1] - cycle.time[i]), 10, 36) + 1

\* C28 happens: an urban cycle of more than two segments sampled every second
\* has been returned, with samples on the rise, at cruise, on the fall and at
\* rest in its third segment.
C28_Witness ==
    /\ CycleReturned("urban")
    /\ cycle.time[2] - cycle.time[1] = 1
    /\ \E i \in 1..(Len(cycle.time) - 99) :
           /\ cycle.time[i] = 200
           /\ cycle.velocity[i] = 0
           /\ cycle.velocity[i + 10] = kmh_to_ms(2500)
           /\ cycle.velocity[i + 40] = kmh_to_ms(5000)
           /\ cycle.velocity[i + 70] = kmh_to_ms(2500)
           /\ cycle.velocity[i + 99] = 0


\* Other values of <<regen_efficiency (%), regen_max_power (kW)>>: another
\* efficiency (no recovery), and another cap (a low one).
RegenVariants == {<<0, 70>>, <<70, 1>>}

\* What the call that has just returned would have returned from a
\* calculator that differs in the two regeneration parameters only.
WithRegen(c, variant) ==
    calculate_energy_consumption(
        [calc EXCEPT !.powertrain.regen_efficiency = variant[1],
                     !.powertrain.regen_max_power = variant[2]],
        cycle.time, cycle.velocity, call[c].grade, call[c].temperature).value

\* C29: regenerative recovery is not credited against consumption. Two calls
\* that differ only in regen_efficiency or regen_max_power (neither negative)
\* return the same E_traction_kWh, E_motor_kWh, E_total_kWh, distance_km and
\* energy_per_km, and the same wheel powers and E_aux_kWh. The comparison
\* is made on the calls that run with no other call in progress (what a call
\* returns does not depend on another call, C10).
C29_RegenNotCredited ==
    [][\A c \in Calls :
          (Returns(c) /\ \A d \in Calls \ {c} : call[d].pc = "idle") =>
              \A variant \in RegenVariants :
                  \A r \in {call'[c].out.value}, other \in {WithRegen(c, variant)} :
                     /\ other.E_traction_kWh = r.E_traction_kWh
                     /\ other.E_motor_kWh = r.E_motor_kWh
                     /\ other.E_total_kWh = r.E_total_kWh
                     /\ other.distance_km = r.distance_km
                     /\ other.energy_per_km = r.energy_per_km
                     /\ other.power_wheels = r.power_wheels
                     /\ other.E_aux_kWh = r.E_aux_kWh]_vars

\* C29 happens: a call has returned from a cycle with braking samples, with a
\* positive recovered energy and a positive total energy, where another
\* regen_efficiency gives another SOC trajectory, battery power, recovered
\* energy and range.
C29_Witness ==
    \E c \in Calls :
        /\ Returned(c) /\ WellFormedCycle
        /\ call[c].out.value.E_regen_recovered_kWh > 0
        /\ call[c].out.value.E_total_kWh > 0
        /\ \E variant \in RegenVariants :
               \E r \in {call[c].out.value}, other \in {WithRegen(c, variant)} :
                  /\ other.soc # r.soc
                  /\ other.power_battery # r.power_battery
                  /\ other.E_regen_recovered_kWh # r.E_regen_recovered_kWh
                  /\ other.estimated_range_km # r.estimated_range_km


\* A sequence that never increases.
NonIncreasing(x) == \A i \in 1..(Len(x) - 1) : x[i + 1] <= x[i]

\* C30: for a battery with soc_min <= soc_initial, on strictly increasing
\* time, the SOC does not rise at a step whose battery current is >= 0
\* (discharge); so a call on a cycle whose battery power is non-negative at
\* every sample returns a SOC sequence that never increases, and
\* soc_final <= soc_initial.
C30_SocMonotoneUnderDischarge ==
    \A c \in Calls :
        /\ (/\ call[c].pc = "loop"
            /\ calc.battery.soc_min <= calc.battery.soc_initial
            /\ StrictlyIncreasing(cycle.time)) =>
               \A i \in 2..Len(call[c].soc) :
                   call[c].pro.I_battery[i] >= 0 =>
                       call[c].soc[i] <= call[c].soc[i - 1]
        /\ (/\ Returned(c)
            /\ calc.battery.soc_min <= calc.battery.soc_initial
            /\ StrictlyIncreasing(call[c].out.value.time)
            /\ cycle.src # "written") =>
               LET r == call[c].out.value
               IN (\A i \in 1..Len(r.power_battery) : r.power_battery[i] >= 0) =>
                      /\ NonIncreasing(r.soc)
                      /\ r.soc_final <= calc.battery.soc_initial

\* C30 happens: a call has returned from a cycle of three or more samples
\* with a positive battery power at every sample, a SOC that has dropped at
\* every step, from a battery that started within its limits.
C30_Witness ==
    \E c \in Calls :
        /\ Returned(c) /\ WellFormedCycle
        /\ calc.battery.soc_min <= calc.battery.soc_initial
        /\ calc.battery.soc_initial <= calc.battery.soc_max
        /\ LET r == call[c].out.value
           IN /\ Len(r.soc) >= 3
              /\ \A i \in 1..Len(r.power_battery) : r.power_battery[i] > 0
              /\ \A i \in 1..(Len(r.soc) - 1) : r.soc[i + 1] < r.soc[i]
              /\ r.soc_final < calc.battery.soc_initial

=============================================================================
